---- MODULE Spec2Model ----
(***************************************************************************)
(* ForeignFifoBuffer<T> (src/util/ForeignFifoBuffer.hxx): a FIFO view over *)
(* a block of elements owned by the caller.  The model holds one view      *)
(* (head, tail, capacity, data), a second instance `other` that takes part *)
(* in ownership transfer, and the caller's memory blocks.                  *)
(*                                                                         *)
(* size_type is modelled as an unsigned integer of SizeBits bits; every    *)
(* addition and subtraction of the code is taken modulo 2^SizeBits.        *)
(* Elements are values copied on assignment (T = uint8_t in all users of   *)
(* the class), so std::move / std::copy_n leave their source unchanged.    *)
(***************************************************************************)
EXTENDS Integers, Sequences, FiniteSets, TLC

\* ---------------------------------------------------------------- bounds
\* Width of size_type in bits (size_t in the source, scaled down).
SizeBits == 3
\* Length of the largest block the caller owns.
MaxCap == 3
\* At most this many elements are written by the caller in one run.
MaxTotal == 3

Modulus == 2 ^ SizeBits
SizeT == 0 .. (Modulus - 1)

\* size_type arithmetic: unsigned, wrapping.
Add(a, b) == (a + b) % Modulus
Sub(a, b) == (a - b + Modulus) % Modulus

\* ------------------------------------------------------ caller's memory
\* nullptr
Null == 0
\* The caller's blocks: block 1 has MaxCap elements, block 2 one less.
Blocks == {1, 2}
BlockLen(b) == IF b = 1 THEN MaxCap ELSE MaxCap - 1
\* The caller writes the k-th element of a run as the value k: the class
\* never inspects an element, so distinct values lose no behaviour and show
\* every loss, duplication and reordering.  Junk is what a block holds
\* before anything is written to it.
Junk == 0

VARIABLES
    head,       \* size_type head
    tail,       \* size_type tail
    capacity,   \* size_type capacity
    data,       \* T *data: Null or a block
    mem,        \* mem[b][i + 1] is element i of block b
    other,      \* a second ForeignFifoBuffer instance (source/target of moves)
    committed,  \* history: elements committed since the binding was made
    consumed,   \* history: elements handed out since the binding was made
    discarded,  \* history: number of live elements dropped by Clear()
    written,    \* history: number of elements the caller has written so far
    last        \* the last call: operation, argument, results

vars == <<head, tail, capacity, data, mem, other, committed, consumed, discarded, written, last>>

\* The fields the class declares, as held by the second instance.
NullView == [head |-> 0, tail |-> 0, capacity |-> 0, data |-> Null]

\* What the last call was and what it returned.  SetBuffer and MoveBuffer
\* record the handle they were passed as start and the capacity as n.
Call(op, n, ok, cnt, start, size, out, shifted) ==
    [op |-> op, n |-> n, ok |-> ok, cnt |-> cnt, start |-> start,
     size |-> size, out |-> out, shifted |-> shifted]

NoCall(op) == Call(op, 0, TRUE, 0, 0, 0, <<>>, FALSE)

\* ---------------------------------------------------------------- queries
IsNull == data = Null
IsEmpty == head = tail
\* An IsFull() that looks at the tail only.
IsFullTailOnly == tail = capacity
IsFull == head = 0 /\ tail = capacity
GetAvailable == Sub(tail, head)

\* The elements of block d at indices from .. to - 1, in order.
Span(m, d, from, to) ==
    IF d = Null \/ to <= from THEN <<>>
    ELSE [i \in 1 .. (to - from) |-> m[d][from + i]]

\* Read(): Range(data + head, tail - head), as the elements it covers.
ReadRange == Span(mem, data, head, Add(head, Sub(tail, head)))

\* ------------------------------------------------------------- std::move
\* std::move(first, last, d_first): assigns element by element, front to
\* back, from block sb to block db; the ranges may overlap when d_first
\* lies before first.
\* A copy that runs back to front: wrong for a destination before the source.
RECURSIVE StdMoveBackward(_, _, _, _, _, _)
StdMoveBackward(m, sb, first, lst, db, dfirst) ==
    IF first >= lst THEN m
    ELSE StdMoveBackward(
             [m EXCEPT ![db][dfirst + (lst - first)] = m[sb][lst]],
             sb, first, lst - 1, db, dfirst)

RECURSIVE StdMove(_, _, _, _, _, _)
StdMove(m, sb, first, lst, db, dfirst) ==
    IF first >= lst THEN m
    ELSE StdMove([m EXCEPT ![db][dfirst + 1] = m[sb][first + 1]],
                 sb, first + 1, lst, db, dfirst + 1)

\* A Shift() that forgets "tail -= head".
ShiftKeepsTail(h, t, d, m) ==
    IF h = 0 THEN [head |-> h, tail |-> t, mem |-> m, shifted |-> FALSE]
    ELSE [head |-> 0, tail |-> t,
          mem |-> IF d = Null THEN m ELSE StdMove(m, d, h, t, d, 0),
          shifted |-> TRUE]

\* A Shift() that resets the cursors and forgets to move the elements.
ShiftWithoutMove(h, t, d, m) ==
    IF h = 0 THEN [head |-> h, tail |-> t, mem |-> m, shifted |-> FALSE]
    ELSE [head |-> 0, tail |-> Sub(t, h), mem |-> m, shifted |-> TRUE]

\* A Shift() that also overwrites what it leaves behind the moved elements.
ShiftScrubs(h, t, d, m) ==
    IF h = 0 THEN [head |-> h, tail |-> t, mem |-> m, shifted |-> FALSE]
    ELSE [head |-> 0, tail |-> Sub(t, h),
          mem |-> IF d = Null THEN m
                  ELSE [StdMove(m, d, h, t, d, 0) EXCEPT ![d] =
                           [i \in DOMAIN m[d] |->
                               IF i > t - h /\ i <= t THEN Junk ELSE @[i]]],
          shifted |-> TRUE]

\* Shift(): the state it leaves, from head h, tail t, block d, memory m.
Shift(h, t, d, m) ==
    IF h = 0 THEN [head |-> h, tail |-> t, mem |-> m, shifted |-> FALSE]
    ELSE [head |-> 0, tail |-> Sub(t, h),
          mem |-> IF d = Null THEN m ELSE StdMove(m, d, h, t, d, 0),
          shifted |-> TRUE]

\* ------------------------------------------------------------------ Init
\* The handle and capacity pairs a caller passes with a block it owns.
Caps(d) == IF d = Null THEN {0, MaxCap} ELSE {0, BlockLen(d)}

Init ==
    /\ \E d \in {Null} \cup Blocks : \E c \in Caps(d) :
          /\ data = d
          /\ capacity = c
    /\ head = 0
    /\ tail = 0
    /\ mem = [b \in Blocks |-> [i \in 1 .. BlockLen(b) |-> Junk]]
    /\ other = NullView
    /\ committed = <<>>
    /\ consumed = <<>>
    /\ discarded = 0
    /\ written = 0
    /\ last = NoCall("Construct")

\* ------------------------------------------------------------ assertions
\* The assertions of Shift(), reached when head != 0.
ShiftAsserts(h, t, c) ==
    /\ h <= c
    /\ t <= c
    /\ t >= h

\* An Append(n) without its last assertion.
AppendAssertsWithoutSum(t, c, n) ==
    /\ t <= c
    /\ n <= c

\* The assertions of Append(n), from tail t and capacity c.
AppendAsserts(t, c, n) ==
    /\ t <= c
    /\ n <= c
    /\ Add(t, n) <= c

\* The assertion of MoveBuffer(new_data, new_capacity).
MoveBufferAsserts(h, t, new_capacity) == new_capacity >= Sub(t, h)

\* The assertions of SetBuffer(_data, _capacity).
SetBufferAsserts(d, c) ==
    /\ d # Null
    /\ c > 0

\* A failed assertion ends the program: the last call was one of these and
\* its assertions did not hold.
Aborted ==
    /\ last.op \in {"Append", "Consume", "SetBuffer", "MoveBuffer", "Read"}
    /\ ~last.ok
Running == ~Aborted

\* --------------------------------------------------------------- actions
\* Blocks the caller may hand to this view: those the other instance does
\* not hold.
FreeFor == {b \in Blocks : b # other.data}

\* The caller works on the instance that holds the binding: while the other
\* instance holds one, this view is only rebound, filled or moved.
Working == other = NullView

SetNull ==
    /\ Running
    /\ Working
    /\ head' = 0
    /\ tail' = 0
    /\ capacity' = 0
    /\ data' = Null
    /\ committed' = <<>>
    /\ consumed' = <<>>
    /\ discarded' = 0
    /\ last' = NoCall("SetNull")
    /\ UNCHANGED <<written, mem, other>>

\* A SetBuffer() that forgets "head = tail = 0".
SetBufferKeepsCursors ==
    \E d \in FreeFor : \E c \in Caps(d) :
        /\ Running
        /\ d # Null
        /\ c > 0
        /\ capacity' = c
        /\ data' = d
        /\ committed' = <<>>
        /\ consumed' = <<>>
        /\ discarded' = 0
        /\ last' = Call("SetBuffer", c, TRUE, 0, d, 0, <<>>, FALSE)
        /\ UNCHANGED <<head, tail, written, mem, other>>

\* SetBuffer(_data, _capacity), within its assertions.
SetBuffer ==
    \E d \in FreeFor : \E c \in Caps(d) :
        /\ Running
        /\ SetBufferAsserts(d, c)
        /\ head' = 0
        /\ tail' = 0
        /\ capacity' = c
        /\ data' = d
        /\ committed' = <<>>
        /\ consumed' = <<>>
        /\ discarded' = 0
        /\ last' = Call("SetBuffer", c, TRUE, 0, d, 0, <<>>, FALSE)
        /\ UNCHANGED <<written, mem, other>>

\* A Clear() that also drops the binding, as SetNull() does.
ClearDropsBinding ==
    /\ Running
    /\ Working
    /\ head' = 0
    /\ tail' = 0
    /\ capacity' = 0
    /\ data' = Null
    /\ discarded' = discarded + Sub(tail, head)
    /\ last' = NoCall("Clear")
    /\ UNCHANGED <<written, mem, other, committed, consumed>>

\* Clear()
Clear ==
    /\ Running
    /\ Working
    /\ head' = 0
    /\ tail' = 0
    /\ discarded' = discarded + Sub(tail, head)
    /\ last' = NoCall("Clear")
    /\ UNCHANGED <<written, capacity, data, mem, other, committed, consumed>>

\* A MoveBuffer() that forgets "tail -= head".
MoveBufferKeepsTail ==
    \E d \in ({Null} \cup FreeFor) \ {data} : \E c \in Caps(d) :
        /\ Running
        /\ Working
        /\ d # Null \/ Sub(tail, head) = 0
        /\ c >= Sub(tail, head)
        /\ mem' = IF d = Null \/ data = Null THEN mem
                  ELSE StdMove(mem, data, head, tail, d, 0)
        /\ data' = d
        /\ capacity' = c
        /\ tail' = tail
        /\ head' = 0
        /\ last' = Call("MoveBuffer", c, TRUE, 0, d, 0, <<>>, FALSE)
        /\ UNCHANGED <<written, other, committed, consumed, discarded>>

\* A MoveBuffer() that moves from the start of the block, not from head.
MoveBufferFromStart ==
    \E d \in ({Null} \cup FreeFor) \ {data} : \E c \in Caps(d) :
        /\ Running
        /\ Working
        /\ d # Null \/ Sub(tail, head) = 0
        /\ c >= Sub(tail, head)
        /\ mem' = IF d = Null \/ data = Null THEN mem
                  ELSE StdMove(mem, data, 0, Sub(tail, head), d, 0)
        /\ data' = d
        /\ capacity' = c
        /\ tail' = Sub(tail, head)
        /\ head' = 0
        /\ last' = Call("MoveBuffer", c, TRUE, 0, d, 0, <<>>, FALSE)
        /\ UNCHANGED <<written, other, committed, consumed, discarded>>

\* MoveBuffer(new_data, new_capacity).  The caller passes a block that no
\* view holds; nullptr can only be passed when nothing is live, since
\* std::move would write through it otherwise.
MoveBuffer ==
    \E d \in ({Null} \cup FreeFor) \ {data} : \E c \in Caps(d) :
        /\ Running
        /\ Working
        /\ d # Null \/ Sub(tail, head) = 0
        /\ MoveBufferAsserts(head, tail, c)
        /\ mem' = IF d = Null \/ data = Null THEN mem
                  ELSE StdMove(mem, data, head, tail, d, 0)
        /\ data' = d
        /\ capacity' = c
        /\ tail' = Sub(tail, head)
        /\ head' = 0
        /\ last' = Call("MoveBuffer", c, TRUE, 0, d, 0, <<>>, FALSE)
        /\ UNCHANGED <<written, other, committed, consumed, discarded>>

\* A Write() that forgets to call Shift().
WriteWithoutShift ==
    /\ Running
    /\ Working
    /\ last' = Call("Write", 0, TRUE, 0, tail, Sub(capacity, tail), <<>>, FALSE)
    /\ UNCHANGED <<written, head, tail, mem, capacity, data, other, committed,
                   consumed, discarded>>

\* Write(): Shift(), then Range(data + tail, capacity - tail).
Write ==
    LET s == Shift(head, tail, data, mem) IN
        /\ Running
        /\ Working
        /\ head' = s.head
        /\ tail' = s.tail
        /\ mem' = s.mem
        /\ last' = Call("Write", 0, TRUE, 0, s.tail, Sub(capacity, s.tail),
                        <<>>, s.shifted)
        /\ UNCHANGED <<written, capacity, data, other, committed, consumed, discarded>>

\* A WantWrite(n) that never compacts.
WantWriteWithoutShift(n) ==
    [ok |-> Add(tail, n) <= capacity, head |-> head, tail |-> tail,
     mem |-> mem, shifted |-> FALSE, asserted |-> TRUE]

\* A WantWrite(n) that compacts before it looks for room.
WantWriteShiftsFirst(n) ==
    LET s == Shift(head, tail, data, mem) IN
        [ok |-> Add(s.tail, n) <= capacity, head |-> s.head, tail |-> s.tail,
         mem |-> s.mem, shifted |-> s.shifted, asserted |-> TRUE]

\* WantWrite(n): the result and the state it leaves; asserted is the value
\* of the assertion after Shift(), TRUE where the call does not reach it.
WantWriteResult(n) ==
    IF Add(tail, n) <= capacity
    THEN [ok |-> TRUE, head |-> head, tail |-> tail, mem |-> mem,
          shifted |-> FALSE, asserted |-> TRUE]
    ELSE LET in_use == Sub(tail, head)
             required_capacity == Add(in_use, n)
             s == Shift(head, tail, data, mem)
         IN IF required_capacity > capacity
            THEN [ok |-> FALSE, head |-> head, tail |-> tail, mem |-> mem,
                  shifted |-> FALSE, asserted |-> TRUE]
            ELSE [ok |-> TRUE, head |-> s.head, tail |-> s.tail,
                  mem |-> s.mem, shifted |-> s.shifted,
                  asserted |-> (head = 0 \/ ShiftAsserts(head, tail, capacity))
                               /\ Add(s.tail, n) <= capacity]

WantWrite ==
    \E n \in SizeT :
        LET r == WantWriteResult(n) IN
            /\ Running
            /\ Working
            /\ head' = r.head
            /\ tail' = r.tail
            /\ mem' = r.mem
            /\ last' = Call("WantWrite", n, r.ok, 0, 0, 0, <<>>, r.shifted)
            /\ UNCHANGED <<written, capacity, data, other, committed, consumed, discarded>>

\* The next n elements the caller writes.
NextElems(n) == [i \in 1 .. n |-> written + i]

\* The caller stores the elements w at data + tail.
Store(m, d, t, w) ==
    [m EXCEPT ![d] = [i \in DOMAIN m[d] |->
        IF i > t /\ i <= t + Len(w) THEN w[i - t] ELSE m[d][i]]]

\* Append(n), called after the caller has written n elements at the tail.
\* The caller honours tail + n <= capacity and writes through a bound
\* handle only.
CommitAppend ==
    \E n \in 0 .. MaxCap :
        /\ Running
        /\ tail + n <= capacity
        /\ written + n <= MaxTotal
        /\ written' = written + n
        /\ data # Null \/ n = 0
        /\ mem' = IF n = 0 THEN mem ELSE Store(mem, data, tail, NextElems(n))
        /\ committed' = committed \o NextElems(n)
        /\ tail' = Add(tail, n)
        /\ last' = Call("Append", 0, TRUE, 0, 0, 0, <<>>, FALSE)
        /\ UNCHANGED <<head, capacity, data, other, consumed, discarded>>

\* A Consume(n) that resets both cursors when it empties the view.
ConsumeResetsWhenEmpty ==
    \E n \in 0 .. MaxCap :
        /\ Running
        /\ Working
        /\ head + n <= tail
        /\ consumed' = consumed \o SubSeq(ReadRange, 1, n)
        /\ head' = IF head + n = tail THEN 0 ELSE Add(head, n)
        /\ tail' = IF head + n = tail THEN 0 ELSE tail
        /\ last' = Call("Consume", 0, TRUE, 0, 0, 0, <<>>, FALSE)
        /\ UNCHANGED <<written, capacity, data, mem, other, committed, discarded>>

\* Consume(n), called after the caller has taken n elements from Read().
\* The caller honours head + n <= tail.
Consume ==
    \E n \in 0 .. MaxCap :
        /\ Running
        /\ Working
        /\ head + n <= tail
        /\ consumed' = consumed \o SubSeq(ReadRange, 1, n)
        /\ head' = Add(head, n)
        /\ last' = Call("Consume", 0, TRUE, 0, 0, 0, <<>>, FALSE)
        /\ UNCHANGED <<written, tail, capacity, data, mem, other, committed, discarded>>

\* The assertions of Consume(n), from head h, tail t and capacity c.
ConsumeAsserts(h, t, c, n) ==
    /\ t <= c
    /\ h <= t
    /\ n <= t
    /\ Add(h, n) <= t

\* Read(p, n): the count copied, min(n, range.size).
ReadCount(n) == IF n > Sub(tail, head) THEN Sub(tail, head) ELSE n

\* A Read(p, n) that copies and forgets to call Consume(n).
ReadWithoutConsume ==
    \E n \in SizeT :
        LET k == ReadCount(n)
            out == SubSeq(ReadRange, 1, k)
        IN  /\ Running
            /\ Working
            /\ last' = Call("Read", n, TRUE, k, 0, 0, out, FALSE)
            /\ UNCHANGED <<written, head, tail, capacity, data, mem, other,
                           committed, consumed, discarded>>

\* Read(p, n): copy_n(range.data, n, p), Consume(n), return n.  The call
\* records whether the assertions of Consume(n) held.
Read ==
    \E n \in SizeT :
        LET k == ReadCount(n)
            out == SubSeq(ReadRange, 1, k)
        IN  /\ Running
            /\ Working
            /\ consumed' = consumed \o out
            /\ head' = Add(head, k)
            /\ last' = Call("Read", n, ConsumeAsserts(head, tail, capacity, k), k,
                            0, 0, out, FALSE)
            /\ UNCHANGED <<written, tail, capacity, data, mem, other, committed, discarded>>

\* The fields of this view.
ThisView == [head |-> head, tail |-> tail, capacity |-> capacity, data |-> data]

\* An operator= that forgets src.SetNull().
MoveAssignToKeepsSource ==
    /\ Running
    /\ other' = ThisView
    /\ last' = NoCall("MoveAssignTo")
    /\ UNCHANGED <<head, tail, capacity, data, committed, consumed, discarded,
                   written, mem>>

\* operator=(ForeignFifoBuffer &&src) on the other instance, src = this view.
MoveAssignTo ==
    /\ Running
    /\ other' = ThisView
    /\ head' = 0
    /\ tail' = 0
    /\ capacity' = 0
    /\ data' = Null
    /\ committed' = <<>>
    /\ consumed' = <<>>
    /\ discarded' = 0
    /\ last' = NoCall("MoveAssignTo")
    /\ UNCHANGED <<written, mem>>

\* operator=(ForeignFifoBuffer &&src) on this view, src = the other instance.
MoveAssignFrom ==
    /\ Running
    /\ head' = other.head
    /\ tail' = other.tail
    /\ capacity' = other.capacity
    /\ data' = other.data
    /\ committed' = Span(mem, other.data, other.head, other.tail)
    /\ consumed' = <<>>
    /\ discarded' = 0
    /\ other' = NullView
    /\ last' = NoCall("MoveAssignFrom")
    /\ UNCHANGED <<written, mem>>

\* Everything but the record of the last call.
State == <<head, tail, capacity, data, mem, other, committed, consumed,
           discarded, written>>

\* SetBuffer(_data, _capacity) with arguments that fail its assertions.
SetBufferFails ==
    \E d \in {Null} \cup FreeFor : \E c \in Caps(d) :
        /\ Running
        /\ ~SetBufferAsserts(d, c)
        /\ last' = Call("SetBuffer", c, FALSE, 0, d, 0, <<>>, FALSE)
        /\ UNCHANGED State

\* MoveBuffer(new_data, new_capacity) with a capacity that fails its
\* assertion.
MoveBufferFails ==
    \E d \in FreeFor \ {data} : \E c \in Caps(d) :
        /\ Running
        /\ Working
        /\ ~MoveBufferAsserts(head, tail, c)
        /\ last' = Call("MoveBuffer", c, FALSE, 0, d, 0, <<>>, FALSE)
        /\ UNCHANGED State

\* Append(n) with an n that fails its assertions.
AppendFails ==
    \E n \in SizeT :
        /\ Running
        /\ ~AppendAsserts(tail, capacity, n)
        /\ last' = Call("Append", 0, FALSE, 0, 0, 0, <<>>, FALSE)
        /\ UNCHANGED State

\* Consume(n) with an n that fails its assertions.
ConsumeFails ==
    \E n \in SizeT :
        /\ Running
        /\ Working
        /\ ~ConsumeAsserts(head, tail, capacity, n)
        /\ last' = Call("Consume", 0, FALSE, 0, 0, 0, <<>>, FALSE)
        /\ UNCHANGED State

\* ForeignFifoBuffer(ForeignFifoBuffer &&src): the other instance is a new
\* object constructed from src = this view.
MoveConstruct ==
    /\ Running
    /\ other' = ThisView
    /\ head' = 0
    /\ tail' = 0
    /\ capacity' = 0
    /\ data' = Null
    /\ committed' = <<>>
    /\ consumed' = <<>>
    /\ discarded' = 0
    /\ last' = NoCall("MoveConstruct")
    /\ UNCHANGED <<written, mem>>

Next ==
    \/ SetNull
    \/ SetBuffer
    \/ MoveBuffer
    \/ Clear
    \/ Write
    \/ WantWrite
    \/ CommitAppend
    \/ Consume
    \/ Read
    \/ MoveAssignTo
    \/ MoveAssignFrom
    \/ MoveConstruct
    \/ SetBufferFails
    \/ MoveBufferFails
    \/ AppendFails
    \/ ConsumeFails

Spec == Init /\ [][Next]_vars

\* ================================================================ claims

\* C1: FIFO order.  As long as no live element has been dropped by Clear()
\* during the binding, the elements handed out so far (by Read(p, n), or
\* taken from Read() and consumed), followed by the span Read() returns now,
\* are exactly the elements committed, in order, without loss or
\* duplication: what was handed out is a prefix of what was committed and
\* the live span is the committed-but-not-yet-consumed suffix.
C1_FifoOrder ==
    discarded = 0 => consumed \o ReadRange = committed

\* C1 witness: two elements have been handed out, one is still live, and the
\* live element sits at index 1 although three were written: the live data
\* was compacted or relocated between the two consumes.
C1_Witness ==
    /\ last.op \in {"Consume", "Read"}
    /\ discarded = 0
    /\ Len(consumed) = 2
    /\ Len(ReadRange) = 1
    /\ head = 1
    /\ Len(committed) = 3

\* C2 as stated: available() is the number of elements committed minus the
\* number of elements consumed since the binding was made, after any
\* operation, Clear() included.
C2_AvailableIsCommittedMinusConsumed ==
    GetAvailable = Len(committed) - Len(consumed)

\* C2 amended: available() is the number of elements committed, minus the
\* number consumed, minus the number of live elements Clear() has dropped,
\* all counted since the binding was made.
C2_AvailableCountsCleared ==
    GetAvailable = Len(committed) - Len(consumed) - discarded

\* C2 witness: Clear() has just dropped live elements of a binding from
\* which an element had been consumed before.
C2_Witness ==
    /\ last.op = "Clear"
    /\ discarded > 0
    /\ Len(consumed) > 0

\* C3: 0 <= head <= tail <= capacity in every reachable state, for this
\* view and for the other instance.
C3_CursorOrder ==
    /\ 0 <= head /\ head <= tail /\ tail <= capacity
    /\ 0 <= other.head /\ other.head <= other.tail
    /\ other.tail <= other.capacity

\* C3 witness: a view relocated to a block that its live elements fill
\* exactly, after an element had been consumed.
C3_Witness ==
    /\ last.op = "MoveBuffer"
    /\ last.ok
    /\ Len(consumed) > 0
    /\ head = 0
    /\ tail = capacity
    /\ tail > 0

\* C4: a null view has capacity = head = tail = 0 (IsNull() is, by its
\* definition, data == nullptr).
C4_NullViewIsZero ==
    IsNull => (capacity = 0 /\ head = 0 /\ tail = 0)

\* C5: for every n, WantWrite(n) returns false exactly when
\* n > capacity - available(), and when it returns true the tail it leaves
\* has tail + n <= capacity.
C5_WantWriteFalseIffNoRoom ==
    \A n \in SizeT :
        LET r == WantWriteResult(n) IN
            /\ (~r.ok) <=> (n > capacity - (tail - head))
            /\ r.ok => r.tail + n <= capacity

\* The fields of the view and the elements of every block are unchanged.
SameViewAndMemory ==
    /\ head' = head
    /\ tail' = tail
    /\ capacity' = capacity
    /\ data' = data
    /\ mem' = mem

\* C6: WantWrite(n) changes nothing (cursors, capacity, binding, elements)
\* when tail + n <= capacity holds before the call, in which case it returns
\* true, and when it returns false, which it does only if
\* available() + n > capacity; it compacts only in the remaining case.
C6_WantWriteFrame ==
    [][last'.op = "WantWrite" =>
        LET n == last'.n IN
            /\ (tail + n <= capacity) => (last'.ok /\ SameViewAndMemory)
            /\ (~last'.ok) =>
                  ((tail - head) + n > capacity /\ SameViewAndMemory)
            /\ (last'.shifted \/ ~SameViewAndMemory) =>
                  /\ tail + n > capacity
                  /\ (tail - head) + n <= capacity
                  /\ last'.ok]_vars

\* C6 witness: WantWrite(n) has returned false on a view whose head is not
\* at the start of the block.
C6_Witness ==
    /\ last.op = "WantWrite"
    /\ ~last.ok
    /\ head > 0
    /\ tail > head

\* C7: a compaction run by Write() or WantWrite(n) happens from head > 0,
\* and Write() from head > 0 always compacts; it leaves head = 0,
\* tail = old tail - old head, the same available() and the same live
\* elements: element i is the element that was at old head + i.
C7_ShiftPreservesLive ==
    [][/\ (last'.op = "Write" /\ head > 0) => last'.shifted
       /\ last'.shifted =>
            /\ last'.op \in {"Write", "WantWrite"}
            /\ head > 0
            /\ head' = 0
            /\ tail' = tail - head
            /\ GetAvailable' = GetAvailable
            /\ data' = data
            /\ \A i \in 0 .. (tail - head - 1) :
                  mem'[data][i + 1] = mem[data][head + i + 1]
            /\ ReadRange' = ReadRange]_vars

\* C7 witness: a compaction has moved two live elements down by one place,
\* source and destination overlapping.
C7_Witness ==
    /\ last.shifted
    /\ head = 0
    /\ tail = 2
    /\ written = 3
    /\ Len(consumed) = 1
    /\ discarded = 0

\* C8 as stated: a compaction leaves every element at an index below the
\* old head or at or above the old tail as it was.
C8_ShiftTouchesOnlyLiveRange ==
    [][last'.shifted =>
        \A i \in 0 .. (BlockLen(data) - 1) :
            (i < head \/ i >= tail) => mem'[data][i + 1] = mem[data][i + 1]]_vars

\* C8 amended: a compaction writes only the indices 0 .. available() - 1
\* it moves the live elements to.  Every element at an index at or above
\* the old tail, and every element at an index i with
\* old tail - old head <= i < old head, is as it was, and so is every
\* other block.
C8_ShiftWritesOnlyFront ==
    [][last'.shifted =>
        /\ \A i \in 0 .. (BlockLen(data) - 1) :
              (i >= tail \/ (i >= tail - head /\ i < head))
                  => mem'[data][i + 1] = mem[data][i + 1]
        /\ \A b \in Blocks \ {data} : mem'[b] = mem[b]]_vars

\* C8 witness: a compaction has moved one live element from index 2 to
\* index 0 and left index 1, between the new and the old live range, and
\* every index from the old tail on as they were.
C8_Witness ==
    /\ last.shifted
    /\ tail = 1
    /\ data = 1
    /\ written = 3
    /\ mem[1][1] = 3
    /\ mem[1][2] = 2
    /\ mem[1][3] = 3

\* C9: Write() leaves head = 0 and returns the span that starts at the
\* tail it leaves and has capacity - tail = capacity - available()
\* elements; the span lies inside the block and after the live elements.
C9_WriteRange ==
    [][last'.op = "Write" =>
        /\ head' = 0
        /\ tail' = tail - head
        /\ last'.start = tail'
        /\ last'.size = capacity' - tail'
        /\ last'.size = capacity - (tail - head)
        /\ last'.start >= tail'
        /\ last'.start + last'.size <= capacity']_vars

\* C9 witness: Write() has compacted and returned a span that is not empty,
\* after live elements.
C9_Witness ==
    /\ last.op = "Write"
    /\ last.shifted
    /\ tail > 0
    /\ last.size > 0

\* C10: Read(p, n) copies k = min(n, available()) elements, those at the
\* indices head .. head + k - 1 in order, advances head by k, returns k,
\* and the assertions of the Consume(k) it calls hold.
C10_ReadCopy ==
    [][last'.op = "Read" =>
        LET n == last'.n
            k == IF n < tail - head THEN n ELSE tail - head
        IN  /\ last'.cnt = k
            /\ Len(last'.out) = k
            /\ \A i \in 0 .. (k - 1) : last'.out[i + 1] = mem[data][head + i + 1]
            /\ head' = head + k
            /\ last'.ok
            /\ tail' = tail /\ capacity' = capacity /\ data' = data
            /\ mem' = mem]_vars

\* C10 witness: a short read: Read(p, n) was asked for more elements than
\* the view held and returned the ones it held.
C10_Witness ==
    /\ last.op = "Read"
    /\ last.cnt > 0
    /\ last.n > last.cnt
    /\ head = tail

\* C11: MoveBuffer(new_data, new_capacity) with new_capacity >= available()
\* (a call whose assertion holds) leaves the view bound to the new block with the new capacity, head = 0,
\* tail = old available(), the same available(), and element i of the new
\* block equal to the old live element i.
C11_MoveBufferPreservesLive ==
    [][(last'.op = "MoveBuffer" /\ last'.ok) =>
        /\ data' = last'.start
        /\ capacity' = last'.n
        /\ head' = 0
        /\ tail' = tail - head
        /\ GetAvailable' = GetAvailable
        /\ \A i \in 0 .. (tail - head - 1) :
              mem'[data'][i + 1] = mem[data][head + i + 1]
        /\ ReadRange' = ReadRange]_vars

\* C11 witness: a view with head = 1 and two live elements has been
\* relocated to the smaller block, which they fill.
C11_Witness ==
    /\ last.op = "MoveBuffer"
    /\ last.ok
    /\ data = 2
    /\ tail = 2
    /\ capacity = 2
    /\ Len(consumed) = 1
    /\ written = 3
    /\ discarded = 0

\* C12: SetBuffer(_data, _capacity), called within its assertions, leaves head = tail = 0, available() = 0,
\* the capacity it was passed and the handle it was passed bound, whatever
\* the state before.
C12_SetBufferResets ==
    [][(last'.op = "SetBuffer" /\ last'.ok) =>
        /\ head' = 0
        /\ tail' = 0
        /\ GetAvailable' = 0
        /\ ReadRange' = <<>>
        /\ capacity' = last'.n
        /\ data' = last'.start
        /\ ~IsNull']_vars

\* C12 witness: the view has been rebound to the block that the caller had
\* filled through it.
C12_Witness ==
    /\ last.op = "SetBuffer"
    /\ last.ok
    /\ data = 1
    /\ mem[1] = <<1, 2, 3>>
    /\ other = NullView

\* C13: a move (construction or assignment) between the two instances leaves
\* the destination with the handle, capacity, head and tail the source had
\* and the source null, with capacity = head = tail = 0.
C13_MoveTransfers ==
    [][/\ last'.op \in {"MoveAssignTo", "MoveConstruct"} =>
            /\ other' = ThisView
            /\ head' = 0 /\ tail' = 0 /\ capacity' = 0 /\ data' = Null
       /\ last'.op = "MoveAssignFrom" =>
            /\ head' = other.head /\ tail' = other.tail
            /\ capacity' = other.capacity /\ data' = other.data
            /\ other' = NullView]_vars

\* C13 witness: a view with a consumed and a live element has been moved
\* to the other instance.
C13_Witness ==
    /\ last.op = "MoveAssignTo"
    /\ other.head > 0
    /\ other.tail > other.head
    /\ data = Null

\* The calls with no precondition complete: the assertions of the Shift()
\* that Write() runs, the assertions inside WantWrite(n) and the assertions
\* of the Consume() inside Read(p, n) hold, for every n.
CallsWithoutPreconditionComplete ==
    /\ head # 0 => ShiftAsserts(head, tail, capacity)
    /\ \A n \in SizeT :
          /\ WantWriteResult(n).asserted
          /\ ConsumeAsserts(head, tail, capacity, ReadCount(n))

\* Append, Consume and MoveBuffer fail an assertion exactly on the
\* arguments named by the claim.
CursorCallsFailAsStated ==
    /\ \A n \in SizeT :
          /\ (~AppendAsserts(tail, capacity, n)) <=> (tail + n > capacity)
          /\ (~ConsumeAsserts(head, tail, capacity, n)) <=> (head + n > tail)
    /\ \A c \in SizeT :
          (~MoveBufferAsserts(head, tail, c)) <=> (c < tail - head)

\* C14 as stated: the calls that fail an assertion are Append(n) with
\* tail + n > capacity, Consume(n) with head + n > tail, MoveBuffer with a
\* capacity below available(), and SetBuffer with a null handle and a
\* nonzero capacity; every other call completes.
C14_FailingCallsAsStated ==
    /\ CursorCallsFailAsStated
    /\ \A d \in {Null} \cup Blocks : \A c \in SizeT :
          (~SetBufferAsserts(d, c)) <=> (d = Null /\ c # 0)
    /\ CallsWithoutPreconditionComplete

\* C14 amended: as stated, but SetBuffer fails with a null handle (whatever
\* the capacity) and with a zero capacity (whatever the handle).
C14_FailingCalls ==
    /\ CursorCallsFailAsStated
    /\ \A d \in {Null} \cup Blocks : \A c \in SizeT :
          (~SetBufferAsserts(d, c)) <=> (d = Null \/ c = 0)
    /\ CallsWithoutPreconditionComplete

\* C14 witness: SetBuffer(nullptr, 0) has failed its assertion on a view
\* that holds live elements.
C14_Witness ==
    /\ last.op = "SetBuffer"
    /\ ~last.ok
    /\ last.start = Null
    /\ last.n = 0
    /\ tail > head

\* C15: Clear() leaves head = tail = 0 and the capacity, the handle and
\* every element of every block as they were.
C15_ClearFrame ==
    [][last'.op = "Clear" =>
        /\ head' = 0
        /\ tail' = 0
        /\ capacity' = capacity
        /\ data' = data
        /\ mem' = mem]_vars

\* C15 witness: Clear() has dropped two live elements, which are still in
\* the block.
C15_Witness ==
    /\ last.op = "Clear"
    /\ discarded >= 2
    /\ head = 0 /\ tail = 0
    /\ data # Null
    /\ capacity >= 2
    /\ mem[data][1] # Junk
    /\ mem[data][2] # Junk

\* C16: IsFull() is true exactly when head = 0 and tail = capacity; where
\* head > 0 and tail = capacity it is false.
C16_IsFullExact ==
    /\ IsFull <=> (head = 0 /\ tail = capacity)
    /\ (head > 0 /\ tail = capacity) => ~IsFull

\* C16 witness: the largest block was filled and an element read from it:
\* head > 0, tail = capacity and IsFull() is false.
C16_Witness ==
    /\ last.op = "Read"
    /\ data = 1
    /\ capacity = MaxCap
    /\ tail = capacity
    /\ head > 0
    /\ head < tail
    /\ ~IsFull

\* C17: Consume(n) adds n to head and leaves tail, capacity, the handle and
\* every element as they were, without compaction, also when it empties the
\* view; from head = tail > 0 the next Write(), or a WantWrite(n) that
\* compacts, leaves head = tail = 0.
C17_ConsumeFrame ==
    [][/\ last'.op = "Consume" =>
            /\ head' = head + (Len(consumed') - Len(consumed))
            /\ head' >= head
            /\ head' <= tail
            /\ tail' = tail
            /\ capacity' = capacity
            /\ data' = data
            /\ mem' = mem
            /\ ~last'.shifted
       /\ ((last'.op = "Write" \/ last'.shifted) /\ head = tail /\ head > 0) =>
            (head' = 0 /\ tail' = 0)]_vars

\* C17 witness: Consume(n) has emptied the view and left head = tail at the
\* end of the largest block.
C17_Witness ==
    /\ last.op = "Consume"
    /\ last.ok
    /\ head = tail
    /\ head = MaxCap

\* C18: IsFull() is true exactly when WantWrite(1) would return false.
C18_IsFullIffNoRoomForOne ==
    IsFull <=> ~WantWriteResult(1).ok

\* C18 witness: WantWrite(1) has returned true after compacting: before the
\* call tail = capacity and head > 0, and IsFull() was false.
C18_Witness ==
    /\ last.op = "WantWrite"
    /\ last.n = 1
    /\ last.ok
    /\ last.shifted
    /\ tail > 0

\* C19: no assertion inside the class fails for a caller that honours the
\* preconditions: the assertions of Shift(), the assertion of WantWrite(n)
\* after Shift(), the assertions of Append(n) for every n with
\* tail + n <= capacity and of Consume(n) for every n with head + n <= tail,
\* and the assertions of the Consume() that Read(p, n) has called.
C19_NoAssertionFails ==
    /\ head # 0 => ShiftAsserts(head, tail, capacity)
    /\ \A n \in SizeT :
          /\ WantWriteResult(n).asserted
          /\ tail + n <= capacity => AppendAsserts(tail, capacity, n)
          /\ head + n <= tail => ConsumeAsserts(head, tail, capacity, n)
    /\ last.op = "Read" => last.ok

\* C19 witness: WantWrite(n) has compacted and its assertion held with no
\* room to spare: tail + n = capacity.
C19_Witness ==
    /\ last.op = "WantWrite"
    /\ last.shifted
    /\ last.n >= 2
    /\ tail >= 1
    /\ tail + last.n = capacity

\* C20: WantWrite(n) returns true only when available() + n, computed
\* without wrapping, is at most capacity, for every n of size_type.
C20_WantWriteTrueOnlyWithRoom ==
    \A n \in SizeT :
        WantWriteResult(n).ok => (tail - head) + n <= capacity
====
